---------------------------- MODULE Spec2Model ----------------------------
(***************************************************************************)
(* Model of the wasm-compilers backend (src/unnamed/part_001, the express  *)
(* server, and src/src/config/languages.ts, the language registry).        *)
(*                                                                         *)
(* The server is one node.js process: every action below is one           *)
(* run-to-completion piece of a callback, from the completion of the      *)
(* operation it awaited to its next await.  The outcome of an awaited      *)
(* operation (a docker command, a file-system call) is an input of the     *)
(* action that resumes after it.                                           *)
(***************************************************************************)
EXTENDS Integers, Sequences, FiniteSets, TLC

(***************************************************************************)
(* Program constants.                                                      *)
(***************************************************************************)
\* part_001:24  const CACHE_TTL = 1000 * 60 * 60
CACHE_TTL == 3600000
\* part_001:25  const MAX_CACHE_SIZE = 100
MAX_CACHE_SIZE == 100
\* part_001:30  const MAX_CONCURRENT_COMPILATIONS = 4
MAX_CONCURRENT_COMPILATIONS == 4
\* part_001:164  LANGUAGES[language]?.poolSize || 2
DEFAULT_POOL_SIZE == 2

\* languages.ts:11-94, the fields the server reads; hasShim is part_001's
\* test  language === "go"  (lines 216, 224).
LANGUAGES ==
  [cpp  |-> [id |-> "cpp",  poolSize |-> 3, hasShim |-> FALSE],
   rust |-> [id |-> "rust", poolSize |-> 2, hasShim |-> FALSE],
   go   |-> [id |-> "go",   poolSize |-> 3, hasShim |-> TRUE]]

\* Object.keys(LANGUAGES) / Object.entries(containerPool): insertion order.
LangOrder == <<"cpp", "rust", "go">>

Langs == DOMAIN LANGUAGES

(***************************************************************************)
(* Bounds of the model.                                                    *)
(***************************************************************************)
\* requests of the queue scenarios beyond MAX_CONCURRENT_COMPILATIONS
ExtraQueueReqs == 2
\* requests of the eviction scenario beyond MAX_CACHE_SIZE
ExtraCacheReqs == 1
\* requests of the general specification
NumReqs == 2
\* requests of the sequential scenario
NumSeqReqs == 3
\* requests of the progress scenario beyond MAX_CONCURRENT_COMPILATIONS
ExtraLiveReqs == 1
\* requests of the reply scenario
NumReplyReqs == 2
\* requests of the health scenario
NumHealthReqs == 2
\* how far past CACHE_TTL the clock may run (ms)
MaxDrift == 1
\* health cycles the timer may start
MaxHealthCycles == 1

(***************************************************************************)
(* Sandbox names.  `wasm-pool-${lang}-${i}` (part_001:65) and              *)
(* `wasm-temp-${language}-${Date.now()}` (part_001:155) are kept as their  *)
(* three parts.                                                            *)
(***************************************************************************)
NoContainer == [kind |-> "", lang |-> "", n |-> 0]

PoolName(lang, i) == [kind |-> "pool", lang |-> lang, n |-> i]

TempName(lang, t) == [kind |-> "temp", lang |-> lang, n |-> t]

\* containerName.includes("pool"): no language id contains "pool", so the
\* substring can only come from the name's fixed part.
IncludesPool(name) == name.kind = "pool"

\* the names warm-up provisions, part_001:61-65 (i = 0 .. poolSize-1)
WarmNamesOf(lang) == { PoolName(lang, i) : i \in 0..(LANGUAGES[lang].poolSize - 1) }

WarmNames == UNION { WarmNamesOf(l) : l \in Langs }

(***************************************************************************)
(* Small sequence helpers.                                                 *)
(***************************************************************************)
Range(s) == { s[i] : i \in DOMAIN s }

Front(s) == SubSeq(s, 1, Len(s) - 1)

Last(s) == s[Len(s)]

(***************************************************************************)
(* The result cache: a JS Map, kept as the sequence of its entries in      *)
(* insertion order (the order Map.entries() iterates in).                  *)
(***************************************************************************)
\* part_001:111-113.  sha256 of `${language}:${code}`; the digest is kept as
\* the pair it is computed from (no registered language id contains ':').
getCacheKey(language, code) == <<language, code>>

\* compilationCache.get(key): the entry, or NoEntry for undefined
NoEntry == [key |-> <<"", 0>>, wasm |-> 0, wasmExec |-> "", timestamp |-> -1]

CacheHas(cache, key) == \E i \in DOMAIN cache : cache[i].key = key

CacheGet(cache, key) ==
  IF CacheHas(cache, key)
    THEN cache[CHOOSE i \in DOMAIN cache : cache[i].key = key]
    ELSE NoEntry

\* compilationCache.set(key, value): an existing key keeps its place
CacheSet(cache, entry) ==
  IF CacheHas(cache, entry.key)
    THEN [i \in DOMAIN cache |->
            IF cache[i].key = entry.key THEN entry ELSE cache[i]]
    ELSE Append(cache, entry)

\* compilationCache.delete(key) for every key of a set
CacheDeleteAll(cache, keys) == SelectSeq(cache, LAMBDA e : e.key \notin keys)

\* nothing ever counts as expired
ExpiredNever(entry, t) == FALSE

\* part_001:119  now - value.timestamp > CACHE_TTL
Expired(entry, t) == t - entry.timestamp > CACHE_TTL

\* Array.prototype.sort((a, b) => a[1].timestamp - b[1].timestamp): stable
RECURSIVE InsertByTimestamp(_, _)
InsertByTimestamp(e, s) ==
  IF s = <<>> THEN <<e>>
  ELSE IF Last(s).timestamp <= e.timestamp THEN Append(s, e)
  ELSE Append(InsertByTimestamp(e, Front(s)), Last(s))

RECURSIVE SortByTimestamp(_)
SortByTimestamp(s) ==
  IF s = <<>> THEN <<>>
  ELSE InsertByTimestamp(Last(s), SortByTimestamp(Front(s)))

\* part_001:121  the test that starts the capacity eviction
OverCapacity(size) == size > MAX_CACHE_SIZE

\* part_001:115-126
cleanCache(cache, t) ==
  LET entries == cache
      purged  == SelectSeq(cache, LAMBDA e : ~Expired(e, t))
  IN  IF OverCapacity(Len(purged))
        THEN LET sorted   == SortByTimestamp(entries)
                 toRemove == SubSeq(sorted, 1, Len(purged) - MAX_CACHE_SIZE)
             IN  CacheDeleteAll(purged, { toRemove[i].key : i \in DOMAIN toRemove })
        ELSE purged

(***************************************************************************)
(* Failure texts.  A text is a sequence of lines, each line kept as the    *)
(* feature of it that part_001:242-255 looks at.                           *)
(***************************************************************************)
Ok == [ok |-> TRUE, stderr |-> <<>>, message |-> <<>>]

Failure(stderr, message) == [ok |-> FALSE, stderr |-> stderr, message |-> message]

\* an exec failure: "Command failed: <cmd>" and the tool's output on stderr
ExecFailure == Failure(<<"error: E">>, <<"Command failed: cmd", "error: E">>)

\* a file-system failure: an Error with a message and no stderr
FsFailure == Failure(<<>>, <<"EACCES">>)

\* String.prototype.trim on a text: blank lines at either end go
RECURSIVE TrimText(_)
TrimText(t) ==
  IF t = <<>> THEN <<>>
  ELSE IF Head(t) = "" THEN TrimText(Tail(t))
  ELSE IF Last(t) = "" THEN TrimText(Front(t))
  ELSE t

\* the index of the first line of t that is in lines, 0 when there is none
FirstLine(t, lines) ==
  IF \E i \in DOMAIN t : t[i] \in lines
    THEN CHOOSE i \in DOMAIN t :
           t[i] \in lines /\ \A j \in 1..(i - 1) : t[j] \notin lines
    ELSE 0

\* lines holding  main.cpp:  (the match of /(main\.cpp:[\s\S]*)/ starts there)
SourceDiagLines == {"main.cpp:1: error"}

\* lines holding  emcc: error:
EmccErrorLines == {"emcc: error: x"}

\* the first line of an exec error's message: Command failed: ... sh -c "..."
WrapperLines == {"Command failed: cmd"}

\* part_001:250  the lines the rust filter keeps
RustDiagLines == {"error: E", "--> main.rs", "| ctx", "12 | code"}

\* replace(/Command failed:.*?sh -c "[^"]+"/g, ''): the wrapper line empties
StripWrapper(t) == [i \in DOMAIN t |-> IF t[i] \in WrapperLines THEN "" ELSE t[i]]

\* part_001:242-253
Classify(language, failure) ==
  LET cleanError == IF failure.stderr # <<>> THEN failure.stderr
                    ELSE IF failure.message # <<>> THEN failure.message
                    ELSE <<"Compilation failed">>
  IN  IF language = "cpp"
        THEN LET m     == FirstLine(cleanError, SourceDiagLines)
                 from  == IF m # 0 THEN SubSeq(cleanError, m, Len(cleanError))
                                   ELSE cleanError
                 e     == FirstLine(from, EmccErrorLines)
             IN  TrimText(IF e # 0 THEN SubSeq(from, 1, e - 1) ELSE from)
      ELSE IF language = "rust"
        THEN TrimText(SelectSeq(StripWrapper(cleanError),
                                LAMBDA line : line \in RustDiagLines))
      ELSE TrimText(StripWrapper(cleanError))

\* the classified text thrown as it is
ThrownMessageRaw(language, failure) == Classify(language, failure)

\* part_001:255  throw new Error(cleanError || "Compilation failed")
ThrownMessage(language, failure) ==
  LET cleanError == Classify(language, failure)
  IN  IF cleanError # <<>> THEN cleanError ELSE <<"Compilation failed">>

(***************************************************************************)
(* State.                                                                  *)
(***************************************************************************)
VARIABLES
  now,                 \* Date.now(), ms
  compilationCache,    \* part_001:23
  requestQueue,        \* part_001:28, the queued continuations, by request
  activeCompilations,  \* part_001:29
  containerPool,       \* part_001:33-36
  poolInitializing,    \* part_001:38
  poolReady,           \* part_001:39
  poolInitPromise,     \* part_001:40: "null", "pending" or "resolved"
  initPc,              \* where the warm-up body of part_001:47-92 stands
  warmPending,         \* the checkPromises of part_001:66-85 not yet settled
  warmBodies,          \* warm-up bodies (47-92) started and not yet returned
  warmAdded,           \* the names warm-up pushed on a free list (71, 75, 80)
  initWaiters,         \* requests awaiting poolInitPromise (part_001:173)
  microtasks,          \* continuations made ready by a promise, not yet run
  listening,           \* whether the callback of app.listen has run
  healthLang,          \* the health check's place in Object.entries (0 = idle)
  healthIdx,           \* the array iterator's index into containerPool[lang]
  restarting,          \* the sandbox  docker restart  is running on
  healthCycles,        \* health checks started so far
  cycleRestarted,      \* the sandboxes the running health check has run
                       \* docker restart  on ({} when none is running)
  containers,          \* the temp sandboxes docker holds
  srcIn,               \* per sandbox, whose source its /src holds (0: none)
  pendingClear,        \* sandboxes with a fire-and-forget clear under way
  req,                 \* per request: its inputs and the locals of its handler
  response,            \* per request: what res.json / res.status().json sent
  startOrder,          \* requests in the order executeWithQueue started fn
  waitOrder            \* requests in the order they were pushed on requestQueue

vars == <<now, compilationCache, requestQueue, activeCompilations, containerPool,
          poolInitializing, poolReady, poolInitPromise, initPc, warmBodies,
          warmPending, warmAdded, initWaiters, microtasks, listening,
          healthLang, healthIdx, restarting, healthCycles, cycleRestarted,
          containers, srcIn, pendingClear, req, response,
          startOrder, waitOrder>>

cacheVars == <<compilationCache>>

queueVars == <<requestQueue, activeCompilations, startOrder, waitOrder>>

initVars == <<poolInitializing, poolReady, poolInitPromise, initPc, warmBodies,
              warmPending, warmAdded, initWaiters, microtasks, listening>>

healthVars == <<healthLang, healthIdx, restarting, healthCycles, cycleRestarted>>

dockerVars == <<containers, srcIn, pendingClear>>

Reqs == DOMAIN req

\* a request before it arrives
NewReq == [pc |-> "new", language |-> "", code |-> 0,
           containerName |-> NoContainer, tempName |-> NoContainer,
           wasm |-> 0, wasmExec |-> "", failure |-> Ok,
           releases |-> 0,    \* calls of releaseContainer made for it (233, 239)
           responses |-> 0]   \* responses sent for it (179, 183, 190, 259, 262)

NoResponse == [status |-> 0, success |-> FALSE, cached |-> "absent",
               wasm |-> 0, wasmExec |-> "", error |-> <<>>]

\* part_001:179, 183, 262  res.status(code).json({ error })
ErrorResponse(code, text) ==
  [status |-> code, success |-> FALSE, cached |-> "absent",
   wasm |-> 0, wasmExec |-> "", error |-> text]

\* the cached answer without the runtime shim
CachedResponseNoShim(entry) ==
  [status |-> 200, success |-> TRUE, cached |-> "true",
   wasm |-> entry.wasm, wasmExec |-> "", error |-> <<>>]

\* part_001:190  res.json({ success: true, wasm, wasmExec, cached: true })
CachedResponse(entry) ==
  [status |-> 200, success |-> TRUE, cached |-> "true",
   wasm |-> entry.wasm, wasmExec |-> entry.wasmExec, error |-> <<>>]

\* part_001:236, 259  res.json({ success: true, wasm, wasmExec })
FreshResponse(wasm, wasmExec) ==
  [status |-> 200, success |-> TRUE, cached |-> "absent",
   wasm |-> wasm, wasmExec |-> wasmExec, error |-> <<>>]

\* no continuation is ready: the event loop takes the next completed operation
Idle == microtasks = <<>>

(***************************************************************************)
(* The admission queue, part_001:128-150.                                  *)
(***************************************************************************)
\* the admission test off by one
CanAdmitOffByOne(active) == active <= MAX_CONCURRENT_COMPILATIONS

\* part_001:129  activeCompilations < MAX_CONCURRENT_COMPILATIONS
CanAdmit(active) == active < MAX_CONCURRENT_COMPILATIONS

\* part_001:134, 145  requestQueue.shift(): the element taken
QueueNext(queue) == Head(queue)

\* the continuation taken stays at the head of the queue
QueueRestKeeps(queue) == queue

\* part_001:134, 145  requestQueue.shift(): what stays
QueueRest(queue) == Tail(queue)

\* the continuation is not kept
QueuePushLost(queue, r) == queue

\* unshift in place of push
QueuePushFront(queue, r) == <<r>> \o queue

\* part_001:139  requestQueue.push(continuation)
QueuePush(queue, r) == Append(queue, r)

\* a finally block that calls no continuation
FinishNoNext(r, base, resp) ==
  /\ activeCompilations' = activeCompilations - 1
  /\ req' = [base EXCEPT ![r].pc = "done", ![r].responses = @ + 1]
  /\ response' = [response EXCEPT ![r] = resp]
  /\ UNCHANGED <<requestQueue, startOrder, waitOrder>>

\* part_001:133-135 and 144-146, the finally block, with the response the
\* handler then sends (259, 262):  activeCompilations--, shift, next().  The
\* continuation taken runs at once up to fn's first await (140-141, 201).
Finish(r, base, resp) ==
  LET hasNext == requestQueue # <<>>
      next    == QueueNext(requestQueue)
  IN  /\ activeCompilations' =
           (activeCompilations - 1) + (IF hasNext THEN 1 ELSE 0)
      /\ requestQueue' = IF hasNext THEN QueueRest(requestQueue) ELSE requestQueue
      /\ startOrder' = IF hasNext THEN Append(startOrder, next) ELSE startOrder
      /\ req' = IF hasNext
                  THEN [base EXCEPT ![r].pc = "done", ![r].responses = @ + 1,
                                    ![next].pc = "scratch"]
                  ELSE [base EXCEPT ![r].pc = "done", ![r].responses = @ + 1]
      /\ response' = [response EXCEPT ![r] = resp]
      /\ UNCHANGED waitOrder

\* a response sent without running a job (part_001:179, 183, 190)
Reply(r, base, resp) ==
  /\ req' = [base EXCEPT ![r].pc = "done", ![r].responses = @ + 1]
  /\ response' = [response EXCEPT ![r] = resp]
  /\ UNCHANGED queueVars

\* part_001:175-194 and executeWithQueue's entry (129-131, 138-139): from the
\* validation to the first await of the job, or to the push on requestQueue
HandleReq(r, base) ==
  LET language == base[r].language
      code     == base[r].code
      cacheKey == getCacheKey(language, code)
  IN  IF language = "" \/ code = 0
        THEN Reply(r, base, ErrorResponse(400, <<"Missing language or code">>))
      ELSE IF language \notin Langs
        THEN Reply(r, base, ErrorResponse(400, <<"Unsupported language">>))
      ELSE IF CacheHas(compilationCache, cacheKey)
        THEN Reply(r, base, CachedResponse(CacheGet(compilationCache, cacheKey)))
      ELSE IF CanAdmit(activeCompilations)
        THEN /\ activeCompilations' = activeCompilations + 1
             /\ startOrder' = Append(startOrder, r)
             /\ req' = [base EXCEPT ![r].pc = "scratch"]
             /\ UNCHANGED <<requestQueue, waitOrder, response>>
      ELSE /\ requestQueue' = QueuePush(requestQueue, r)
           /\ waitOrder' = Append(waitOrder, r)
           /\ req' = [base EXCEPT ![r].pc = "queued"]
           /\ UNCHANGED <<activeCompilations, startOrder, response>>

(***************************************************************************)
(* Warm-up, part_001:42-94.                                                *)
(***************************************************************************)
\* no call ever joins a warm-up in flight
JoinsWarmUpNever == FALSE

\* part_001:44  poolInitializing && poolInitPromise
JoinsWarmUp == poolInitializing /\ poolInitPromise # "null"

\* initPool() called with poolReady false (part_001:43-47, 93): either the
\* promise in flight is returned, or a body starts and runs to its first await
InitPoolCall ==
  IF JoinsWarmUp
    THEN UNCHANGED <<poolInitializing, poolInitPromise, initPc, warmBodies>>
    ELSE /\ poolInitializing' = TRUE
         /\ poolInitPromise' = "pending"
         /\ initPc' = "dockerVersion"
         /\ warmBodies' = warmBodies + 1

\* the body returns (56 or 92): its promise resolves and readies its awaiters
BodyReturns(ready) ==
  /\ poolInitializing' = FALSE
  /\ poolReady' = ready
  /\ poolInitPromise' = "resolved"
  /\ initPc' = "idle"
  /\ warmBodies' = warmBodies - 1
  /\ microtasks' = initWaiters
  /\ initWaiters' = <<>>

\* part_001:266-269  the callback of app.listen
Listen ==
  /\ ~listening
  /\ listening' = TRUE
  /\ IF poolReady THEN UNCHANGED <<poolInitializing, poolInitPromise, initPc, warmBodies>>
                  ELSE InitPoolCall
  /\ UNCHANGED <<now, cacheVars, queueVars, containerPool, poolReady, warmPending, warmAdded,
                 initWaiters, microtasks, healthVars, dockerVars, req, response>>

\* part_001:48-58  docker version  settles
DockerVersionDone(ok) ==
  /\ Idle
  /\ initPc = "dockerVersion"
  /\ IF ok
       THEN /\ initPc' = "warming"
            /\ warmPending' = WarmNames
            /\ UNCHANGED <<warmBodies, poolInitializing, poolReady, poolInitPromise,
                           initWaiters, microtasks>>
       ELSE /\ BodyReturns(FALSE)
            /\ UNCHANGED warmPending
  /\ UNCHANGED warmAdded
  /\ UNCHANGED <<now, cacheVars, queueVars, containerPool, listening, healthVars,
                 dockerVars, req, response>>

\* part_001:66-84  one sandbox's check chain settles: it was found running
\* ("reuse"), started ("start"), created ("run"), or a command of the chain
\* failed ("fail").  The last one to settle lets the body finish (88-91).
WarmDone(name, how) ==
  /\ Idle
  /\ initPc = "warming"
  /\ name \in warmPending
  /\ warmPending' = warmPending \ {name}
  /\ warmAdded' = IF how = "fail" THEN warmAdded ELSE Append(warmAdded, name)
  /\ containerPool' =
       IF how = "fail" THEN containerPool
       ELSE [containerPool EXCEPT ![name.lang] = Append(@, name)]
  /\ IF warmPending' = {}
       THEN BodyReturns(TRUE)
       ELSE UNCHANGED <<poolInitializing, poolReady, poolInitPromise, initPc, warmBodies,
                        initWaiters, microtasks>>
  /\ UNCHANGED <<now, cacheVars, queueVars, listening, healthVars, dockerVars,
                 req, response>>

(***************************************************************************)
(* The compile handler, part_001:172-264.                                  *)
(***************************************************************************)
\* a request arrives (172-176).  With the pool ready the handler runs on to
\* the job's first await; otherwise it calls initPool() and awaits it.
Arrive(r, language, code) ==
  /\ Idle
  /\ listening
  /\ req[r].pc = "new"
  /\ \A q \in Reqs : q < r => req[q].pc # "new"
  /\ LET base == [req EXCEPT ![r].language = language, ![r].code = code]
     IN  IF poolReady
           THEN /\ HandleReq(r, base)
                /\ UNCHANGED <<poolInitializing, poolInitPromise, initPc, warmBodies,
                               initWaiters>>
           ELSE /\ InitPoolCall
                /\ initWaiters' = Append(initWaiters, r)
                /\ req' = [base EXCEPT ![r].pc = "awaitInit"]
                /\ UNCHANGED <<queueVars, response>>
  /\ UNCHANGED <<now, cacheVars, containerPool, poolReady, warmPending, warmAdded, microtasks,
                 listening, healthVars, dockerVars>>

\* the handler resumes after  await initPool()
ResumeAfterInit ==
  /\ microtasks # <<>>
  /\ HandleReq(Head(microtasks), req)
  /\ microtasks' = Tail(microtasks)
  /\ UNCHANGED <<now, cacheVars, containerPool, poolInitializing, poolReady,
                 poolInitPromise, initPc, warmBodies, warmPending, warmAdded, initWaiters, listening,
                 healthVars, dockerVars>>

\* part_001:164  LANGUAGES[language]?.poolSize || 2
PoolSizeOf(language) ==
  IF language \in Langs /\ LANGUAGES[language].poolSize # 0
    THEN LANGUAGES[language].poolSize
    ELSE DEFAULT_POOL_SIZE

\* the release test without the name test
ShouldPoolAnyName(pool, language, containerName) ==
  Len(pool) < PoolSizeOf(language)

\* part_001:165  pool.length < poolSize && containerName.includes("pool")
ShouldPool(pool, language, containerName) ==
  Len(pool) < PoolSizeOf(language) /\ IncludesPool(containerName)

\* part_001:154  pool.length > 0
HasFree(pool) == Len(pool) > 0

\* pop in place of shift
TakeFreeLast(pool) == Last(pool)

\* part_001:154  pool.shift(): the handle taken
TakeFree(pool) == Head(pool)

\* the handle taken stays in the free list
RestFreeKeepsHead(pool) == pool

\* part_001:154  pool.shift(): what stays in the free list
RestFree(pool) == Tail(pool)

\* part_001:155  `wasm-temp-${language}-${Date.now()}`
NewTempName(language, t) == TempName(language, t)

\* releaseContainer is called for request r's job (233, 239)
ReleaseCalled(base, r) == [base EXCEPT ![r].releases = @ + 1]

\* a catch block that forgets the handle
EnterCatchNoRelease(r, failure) ==
  /\ req' = [req EXCEPT ![r].failure = failure, ![r].pc = "catchRm"]
  /\ UNCHANGED containerPool

\* the catch block's start (238-240) after a failure: the handle, if one was
\* acquired, is released; releaseContainer either pushes it and rm(tmpDir)
\* is called, or  docker rm -f  is awaited first
EnterCatch(r, failure) ==
  LET language == req[r].language
      name     == req[r].containerName
      pool     == containerPool[language]
      failed   == [req EXCEPT ![r].failure = failure]
  IN  IF name = NoContainer
        THEN /\ req' = [failed EXCEPT ![r].pc = "catchRm"]
             /\ UNCHANGED containerPool
      ELSE IF ShouldPool(pool, language, name)
        THEN /\ req' = [ReleaseCalled(failed, r) EXCEPT ![r].pc = "catchRm"]
             /\ containerPool' = [containerPool EXCEPT ![language] = Append(pool, name)]
      ELSE /\ req' = [ReleaseCalled(failed, r) EXCEPT ![r].pc = "catchReleaseRm"]
           /\ UNCHANGED containerPool

\* mkdir and writeFile settle (201-202); then getContainer is called (205,
\* 152-157): a free handle is shifted off the list, or  docker run  is
\* issued under a name made from the clock
ScratchDone(r, out) ==
  /\ Idle
  /\ req[r].pc = "scratch"
  /\ LET language == req[r].language
         pool     == containerPool[language]
     IN  IF ~out.ok
           THEN EnterCatch(r, out)
         ELSE IF HasFree(pool)
           THEN /\ containerPool' = [containerPool EXCEPT ![language] = RestFree(pool)]
                /\ req' = [req EXCEPT ![r].pc = "clear",
                                      ![r].containerName = TakeFree(pool)]
         ELSE /\ req' = [req EXCEPT ![r].pc = "dockerRun",
                                    ![r].tempName = NewTempName(language, now)]
              /\ UNCHANGED containerPool
  /\ UNCHANGED <<now, cacheVars, queueVars, initVars, healthVars, dockerVars,
                 response>>

\* docker run  of getContainer settles (157-159); docker refuses a name that
\* a container it holds already has
DockerRunDone(r, out) ==
  /\ Idle
  /\ req[r].pc = "dockerRun"
  /\ out.ok => req[r].tempName \notin containers
  /\ IF out.ok
       THEN /\ containers' = containers \cup {req[r].tempName}
            /\ srcIn' = [n \in DOMAIN srcIn \cup {req[r].tempName} |->
                           IF n \in DOMAIN srcIn THEN srcIn[n] ELSE 0]
            /\ req' = [req EXCEPT ![r].pc = "clear",
                                  ![r].containerName = req[r].tempName]
            /\ UNCHANGED containerPool
       ELSE /\ EnterCatch(r, out)
            /\ UNCHANGED <<containers, srcIn>>
  /\ UNCHANGED <<now, cacheVars, queueVars, initVars, healthVars, pendingClear,
                 response>>

\* the clear before the job settles (208); its failure is swallowed
ClearDone(r, ok) ==
  /\ Idle
  /\ req[r].pc = "clear"
  /\ srcIn' = IF ok /\ req[r].containerName \in DOMAIN srcIn
                THEN [srcIn EXCEPT ![req[r].containerName] = 0]
                ELSE srcIn
  /\ req' = [req EXCEPT ![r].pc = "cpIn"]
  /\ UNCHANGED <<now, cacheVars, queueVars, containerPool, initVars, healthVars,
                 containers, pendingClear, response>>

\* docker cp  into the sandbox settles (209)
CpInDone(r, out) ==
  /\ Idle
  /\ req[r].pc = "cpIn"
  /\ IF out.ok
       THEN /\ srcIn' = IF req[r].containerName \in DOMAIN srcIn
                          THEN [srcIn EXCEPT ![req[r].containerName] = r]
                          ELSE srcIn
            /\ req' = [req EXCEPT ![r].pc = "compile"]
            /\ UNCHANGED containerPool
       ELSE /\ EnterCatch(r, out)
            /\ UNCHANGED srcIn
  /\ UNCHANGED <<now, cacheVars, queueVars, initVars, healthVars, containers,
                 pendingClear, response>>

\* the compile command settles (211-213)
CompileDone(r, out) ==
  /\ Idle
  /\ req[r].pc = "compile"
  /\ IF out.ok
       THEN /\ req' = [req EXCEPT ![r].pc = "transferOut"]
            /\ UNCHANGED containerPool
       ELSE EnterCatch(r, out)
  /\ UNCHANGED <<now, cacheVars, queueVars, initVars, healthVars, dockerVars,
                 response>>

\* the copies out and the reads settle (215-226), the artifact read being
\* wasm; then cleanCache and the insert run (228-229) and rm(tmpDir) is called
TransferOutDone(r, out, wasm) ==
  /\ Idle
  /\ req[r].pc = "transferOut"
  /\ IF out.ok
       THEN LET language == req[r].language
                wasmExec == IF LANGUAGES[language].hasShim THEN "shim" ELSE ""
                entry    == [key |-> getCacheKey(language, req[r].code),
                             wasm |-> wasm, wasmExec |-> wasmExec,
                             timestamp |-> now]
            IN  /\ compilationCache' =
                     CacheSet(cleanCache(compilationCache, now), entry)
                /\ req' = [req EXCEPT ![r].pc = "rmTmp", ![r].wasm = wasm,
                                      ![r].wasmExec = wasmExec]
                /\ UNCHANGED containerPool
       ELSE /\ EnterCatch(r, out)
            /\ UNCHANGED compilationCache
  /\ UNCHANGED <<now, queueVars, initVars, healthVars, dockerVars, response>>

\* rm(tmpDir) of the success path settles (231); then the fire-and-forget
\* clear is issued (232) and releaseContainer is called (233, 162-168): the
\* handle is pushed and the job returns (236), or  docker rm -f  is awaited
RmTmpDone(r, out) ==
  /\ Idle
  /\ req[r].pc = "rmTmp"
  /\ LET language == req[r].language
         name     == req[r].containerName
         pool     == containerPool[language]
     IN  IF ~out.ok
           THEN /\ EnterCatch(r, out)
                /\ UNCHANGED <<queueVars, response, pendingClear>>
         ELSE /\ pendingClear' = pendingClear \cup {name}
              /\ IF ShouldPool(pool, language, name)
                   THEN /\ containerPool' =
                             [containerPool EXCEPT ![language] = Append(pool, name)]
                        /\ Finish(r, ReleaseCalled(req, r),
                                  FreshResponse(req[r].wasm, req[r].wasmExec))
                   ELSE /\ req' = [ReleaseCalled(req, r) EXCEPT ![r].pc = "releaseRm"]
                        /\ UNCHANGED <<containerPool, queueVars, response>>
  /\ UNCHANGED <<now, cacheVars, initVars, healthVars, containers, srcIn>>

\* what  docker rm -f name  leaves of docker's state
AfterDockerRm(name, ok) ==
  /\ containers' = IF ok THEN containers \ {name} ELSE containers
  /\ srcIn' = IF ok /\ ~IncludesPool(name)
                THEN [n \in DOMAIN srcIn \ {name} |-> srcIn[n]]
                ELSE srcIn
  /\ pendingClear' = IF ok THEN pendingClear \ {name} ELSE pendingClear

\* docker rm -f  of the success path's release settles (168); its failure
\* is swallowed; the job returns (236)
ReleaseRmDone(r, ok) ==
  /\ Idle
  /\ req[r].pc = "releaseRm"
  /\ AfterDockerRm(req[r].containerName, ok)
  /\ Finish(r, req, FreshResponse(req[r].wasm, req[r].wasmExec))
  /\ UNCHANGED <<now, cacheVars, containerPool, initVars, healthVars>>

\* docker rm -f  of the catch block's release settles (239, 168); then
\* rm(tmpDir) is called (240)
CatchReleaseRmDone(r, ok) ==
  /\ Idle
  /\ req[r].pc = "catchReleaseRm"
  /\ AfterDockerRm(req[r].containerName, ok)
  /\ req' = [req EXCEPT ![r].pc = "catchRm"]
  /\ UNCHANGED <<now, cacheVars, queueVars, containerPool, initVars, healthVars,
                 response>>

\* rm(tmpDir) of the catch block settles (240), its failure swallowed; the
\* error is classified and thrown (242-255), and the handler answers 500 (262)
CatchRmDone(r, ok) ==
  /\ Idle
  /\ req[r].pc = "catchRm"
  /\ Finish(r, req, ErrorResponse(500, ThrownMessage(req[r].language, req[r].failure)))
  /\ UNCHANGED <<now, cacheVars, containerPool, initVars, healthVars, dockerVars>>

\* the fire-and-forget  rm -rf /src/*  of line 232 runs in the sandbox
ClearEffect(name, ok) ==
  /\ Idle
  /\ name \in pendingClear
  /\ pendingClear' = pendingClear \ {name}
  /\ srcIn' = IF ok /\ name \in DOMAIN srcIn
                THEN [srcIn EXCEPT ![name] = 0]
                ELSE srcIn
  /\ UNCHANGED <<now, cacheVars, queueVars, containerPool, initVars, healthVars,
                 containers, req, response>>

(***************************************************************************)
(* The periodic health check, part_001:97-109.                             *)
(***************************************************************************)
HealthIdle == [lang |-> 0, idx |-> 0, name |-> NoContainer]

\* the two for...of loops (99-100) from language p, index i on: the next
\* sandbox to restart.  The inner loop's array iterator reads the live free
\* list: it goes on while its index is below the list's current length.
RECURSIVE HealthSeek(_, _)
HealthSeek(p, i) ==
  IF p > Len(LangOrder) THEN HealthIdle
  ELSE IF i <= Len(containerPool[LangOrder[p]])
    THEN [lang |-> p, idx |-> i, name |-> containerPool[LangOrder[p]][i]]
  ELSE HealthSeek(p + 1, 1)

HealthGoTo(target) ==
  /\ healthLang' = target.lang
  /\ healthIdx' = target.idx
  /\ restarting' = target.name

\* the interval timer fires (97): the callback runs to its first
\* docker restart  (102), or to its end when every free list is empty
HealthStart ==
  /\ Idle
  /\ healthLang = 0
  /\ healthCycles < MaxHealthCycles
  /\ healthCycles' = healthCycles + 1
  /\ HealthGoTo(HealthSeek(1, 1))
  /\ cycleRestarted' = {HealthSeek(1, 1).name} \ {NoContainer}
  /\ UNCHANGED <<now, cacheVars, queueVars, containerPool, initVars, dockerVars,
                 req, response>>

\* docker restart  settles (102-106), its failure logged; the loops go on
HealthRestartDone(ok) ==
  /\ Idle
  /\ healthLang # 0
  /\ HealthGoTo(HealthSeek(healthLang, healthIdx + 1))
  /\ IF HealthSeek(healthLang, healthIdx + 1).lang = 0
       THEN cycleRestarted' = {}
       ELSE cycleRestarted' =
              cycleRestarted \cup {HealthSeek(healthLang, healthIdx + 1).name}
  /\ UNCHANGED <<now, cacheVars, queueVars, containerPool, initVars, healthCycles,
                 dockerVars, req, response>>

(***************************************************************************)
(* The clock.                                                              *)
(***************************************************************************)
MaxClock == CACHE_TTL + MaxDrift

\* time passes, by a millisecond or by CACHE_TTL; the clock is kept within
\* MaxDrift ms of 0 or of CACHE_TTL
Tick(d) ==
  /\ Idle
  /\ now + d <= MaxClock
  /\ (now + d) % CACHE_TTL <= MaxDrift
  /\ now' = now + d
  /\ UNCHANGED <<cacheVars, queueVars, containerPool, initVars, healthVars,
                 dockerVars, req, response>>

(***************************************************************************)
(* Initial states.                                                         *)
(***************************************************************************)
\* the free lists of pool one after the other, in the order of LANGUAGES
Flatten(pool) == pool[LangOrder[1]] \o pool[LangOrder[2]] \o pool[LangOrder[3]]

\* n requests are still to come, nothing is cached, queued or running, and
\* the free lists are pool; warmed tells whether the server is listening with
\* its first warm-up done (part_001:89-90) or has only been loaded (13-40)
Started(n, warmed, pool) ==
  /\ now = 0
  /\ compilationCache = <<>>
  /\ requestQueue = <<>>
  /\ activeCompilations = 0
  /\ containerPool = pool
  /\ poolInitializing = FALSE
  /\ poolReady = warmed
  /\ poolInitPromise = IF warmed THEN "resolved" ELSE "null"
  /\ initPc = "idle"
  /\ warmPending = {}
  /\ warmBodies = 0
  /\ warmAdded = IF warmed THEN Flatten(pool) ELSE <<>>
  /\ initWaiters = <<>>
  /\ microtasks = <<>>
  /\ listening = warmed
  /\ healthLang = 0
  /\ healthIdx = 0
  /\ restarting = NoContainer
  /\ healthCycles = 0
  /\ cycleRestarted = {}
  /\ containers = {}
  /\ srcIn = [name \in WarmNames |-> 0]
  /\ pendingClear = {}
  /\ req = [r \in 1..n |-> NewReq]
  /\ response = [r \in 1..n |-> NoResponse]
  /\ startOrder = <<>>
  /\ waitOrder = <<>>

\* part_001:33-36  every language's free list starts empty
EmptyPool == [l \in Langs |-> <<>>]

\* the free lists after a warm-up in which every check settled, in loop order
WarmPool == [l \in Langs |-> [i \in 1..LANGUAGES[l].poolSize |-> PoolName(l, i - 1)]]

\* the module has been loaded: nothing has run yet
Constructed(n) == Started(n, FALSE, EmptyPool)

\* the first warm-up has succeeded with every sandbox warmed
Warmed(n) == Started(n, TRUE, WarmPool)

\* the first warm-up has ended with no sandbox warmed (every check failed, 84)
WarmedEmpty(n) == Started(n, TRUE, EmptyPool)

(***************************************************************************)
(* What a step may be told by the operation it awaited.                    *)
(***************************************************************************)
ExecOuts == {Ok, ExecFailure}

FsOuts == {Ok, FsFailure}

\* the checks of part_001:61-87 in the order the loops issue them
WarmOrder ==
  <<PoolName("cpp", 0), PoolName("cpp", 1), PoolName("cpp", 2),
    PoolName("rust", 0), PoolName("rust", 1),
    PoolName("go", 0), PoolName("go", 1), PoolName("go", 2)>>

\* name is the earliest issued of the checks still pending
FirstPending(name) ==
  \E i \in DOMAIN WarmOrder :
    /\ WarmOrder[i] = name
    /\ \A j \in 1..(i - 1) : WarmOrder[j] \notin warmPending

(***************************************************************************)
(* The general specification: the server from its construction on, with    *)
(* NumReqs requests for one rust source text.  Every awaited operation of  *)
(* a job may fail, docker version may fail, a rust sandbox may fail to     *)
(* warm; the health check runs and the clock ticks.  The warm-up checks    *)
(* settle in the order they were issued.                                   *)
(***************************************************************************)
Init == Constructed(NumReqs)

Next ==
  \/ Listen
  \/ \E ok \in BOOLEAN : DockerVersionDone(ok)
  \/ \E name \in WarmNames :
       /\ FirstPending(name)
       /\ \E how \in IF name.lang = "rust" THEN {"reuse", "start", "run", "fail"}
                                          ELSE {"reuse", "start", "run"} :
            WarmDone(name, how)
  \/ ResumeAfterInit
  \/ \E r \in Reqs : Arrive(r, "rust", 1)
  \/ \E r \in Reqs, out \in FsOuts : ScratchDone(r, out)
  \/ \E r \in Reqs, out \in ExecOuts : DockerRunDone(r, out)
  \/ \E r \in Reqs, ok \in BOOLEAN : ClearDone(r, ok)
  \/ \E r \in Reqs, out \in ExecOuts : CpInDone(r, out)
  \/ \E r \in Reqs, out \in ExecOuts : CompileDone(r, out)
  \/ \E r \in Reqs, out \in ExecOuts : TransferOutDone(r, out, 1)
  \/ \E r \in Reqs, out \in FsOuts : RmTmpDone(r, out)
  \/ \E r \in Reqs, ok \in BOOLEAN : ReleaseRmDone(r, ok)
  \/ \E r \in Reqs, ok \in BOOLEAN : CatchReleaseRmDone(r, ok)
  \/ \E r \in Reqs : CatchRmDone(r, TRUE)
  \/ \E name \in pendingClear, ok \in BOOLEAN : ClearEffect(name, ok)
  \/ HealthStart
  \/ \E ok \in BOOLEAN : HealthRestartDone(ok)
  \/ Tick(1)

Spec == Init /\ [][Next]_vars

(***************************************************************************)
(* The queue scenario: the server after a warm-up that warmed nothing, and *)
(* a burst of MAX_CONCURRENT_COMPILATIONS + ExtraQueueReqs requests for    *)
(* one source text within one millisecond.  Every job needs a temp         *)
(* sandbox; docker run  fails for a job whenever it likes, and must fail   *)
(* while another job's sandbox has the name, so jobs end both ways.  The   *)
(* health check, the clock and the fire-and-forget clear write none of the *)
(* queue's state and enable no step of a job, and are left out.            *)
(***************************************************************************)
InitQueue == WarmedEmpty(MAX_CONCURRENT_COMPILATIONS + ExtraQueueReqs)

JobStepQueue(r) ==
  \/ ScratchDone(r, Ok)
  \/ \E out \in ExecOuts : DockerRunDone(r, out)
  \/ ClearDone(r, TRUE)
  \/ CpInDone(r, Ok)
  \/ CompileDone(r, Ok)
  \/ TransferOutDone(r, Ok, 1)
  \/ RmTmpDone(r, Ok)
  \/ ReleaseRmDone(r, TRUE)
  \/ CatchRmDone(r, TRUE)

NextQueue ==
  \/ \E r \in Reqs : Arrive(r, "rust", 1)
  \/ \E r \in Reqs : ScratchDone(r, Ok)
  \/ \E r \in Reqs, out \in ExecOuts : DockerRunDone(r, out)
  \/ \E r \in Reqs : ClearDone(r, TRUE)
  \/ \E r \in Reqs : CpInDone(r, Ok)
  \/ \E r \in Reqs : CompileDone(r, Ok)
  \/ \E r \in Reqs : TransferOutDone(r, Ok, 1)
  \/ \E r \in Reqs : RmTmpDone(r, Ok)
  \/ \E r \in Reqs : ReleaseRmDone(r, TRUE)
  \/ \E r \in Reqs : CatchRmDone(r, TRUE)

SpecQueue == InitQueue /\ [][NextQueue]_vars

(***************************************************************************)
(* The same burst, one request shorter, with every awaited operation of a  *)
(* job settling in the end: the assumption under which the queue promises  *)
(* progress.  Arrivals are not forced.                                     *)
(***************************************************************************)
InitLive == WarmedEmpty(MAX_CONCURRENT_COMPILATIONS + ExtraLiveReqs)

LiveReqs == 1..(MAX_CONCURRENT_COMPILATIONS + ExtraLiveReqs)

FairQueue ==
  /\ InitLive
  /\ [][NextQueue]_vars
  /\ WF_vars(\E r \in LiveReqs : JobStepQueue(r))

(***************************************************************************)
(* The eviction scenario: a warmed server compiles                         *)
(* MAX_CACHE_SIZE + ExtraCacheReqs different rust sources one after the    *)
(* other, every operation succeeding, within one millisecond.              *)
(***************************************************************************)
InitEvict == Warmed(MAX_CACHE_SIZE + ExtraCacheReqs)

\* every earlier request has been answered
Alone(r) == \A q \in Reqs : q < r => req[q].pc = "done"

NextEvict ==
  \/ \E r \in Reqs : Alone(r) /\ Arrive(r, "rust", r)
  \/ \E r \in Reqs : ScratchDone(r, Ok)
  \/ \E r \in Reqs : ClearDone(r, TRUE)
  \/ \E r \in Reqs : CpInDone(r, Ok)
  \/ \E r \in Reqs : CompileDone(r, Ok)
  \/ \E r \in Reqs : TransferOutDone(r, Ok, 1)
  \/ \E r \in Reqs : RmTmpDone(r, Ok)

SpecEvict == InitEvict /\ [][NextEvict]_vars

(***************************************************************************)
(* The sequential scenario: a warmed server answers NumSeqReqs requests    *)
(* one after the other, each for one of two go or rust sources; a compile  *)
(* may fail, two builds of a source may differ, and the clock runs, past   *)
(* CACHE_TTL too.                                                          *)
(***************************************************************************)
InitSeq == Warmed(NumSeqReqs)

SeqReqs == 1..NumSeqReqs

JobStepSeq(r) ==
  \/ ScratchDone(r, Ok)
  \/ ClearDone(r, TRUE)
  \/ CpInDone(r, Ok)
  \/ \E out \in ExecOuts : CompileDone(r, out)
  \/ \E wasm \in {1, 2} : TransferOutDone(r, Ok, wasm)
  \/ RmTmpDone(r, Ok)
  \/ CatchRmDone(r, TRUE)

NextSeq ==
  \/ \E r \in Reqs, language \in {"go", "rust"}, code \in {1, 2} :
       Alone(r) /\ Arrive(r, language, code)
  \/ \E r \in Reqs : ScratchDone(r, Ok)
  \/ \E r \in Reqs : ClearDone(r, TRUE)
  \/ \E r \in Reqs : CpInDone(r, Ok)
  \/ \E r \in Reqs, out \in ExecOuts : CompileDone(r, out)
  \/ \E r \in Reqs, wasm \in {1, 2} : TransferOutDone(r, Ok, wasm)
  \/ \E r \in Reqs : RmTmpDone(r, Ok)
  \/ \E r \in Reqs : CatchRmDone(r, TRUE)
  \/ \E name \in pendingClear : ClearEffect(name, TRUE)
  \/ \E d \in {1, CACHE_TTL} : Tick(d)

SpecSeq == InitSeq /\ [][NextSeq]_vars

\* as SpecSeq, with every awaited operation settling and time passing;
\* arrivals are not forced
FairSeq ==
  /\ InitSeq
  /\ [][NextSeq]_vars
  /\ \A r \in SeqReqs : WF_vars(JobStepSeq(r))
  /\ WF_vars(\E d \in {1, CACHE_TTL} : Tick(d))
  /\ WF_vars(\E name \in pendingClear : ClearEffect(name, TRUE))

(***************************************************************************)
(* The reply scenario: a warmed server answers NumReplyReqs requests one   *)
(* after the other; a request may lack its language or its code or name a  *)
(* language the server does not have, every awaited operation of a job may *)
(* fail, and the compiler may fail with any of CompileFailures.            *)
(***************************************************************************)
\* what a failing compile command may leave: diagnostics the filters keep,
\* output they drop, a linker error alone, a source diagnostic followed by
\* a linker error, and no output at all
CompileFailures ==
  { ExecFailure,
    Failure(<<"warning: w">>, <<"Command failed: cmd", "warning: w">>),
    Failure(<<"emcc: error: x">>, <<"Command failed: cmd", "emcc: error: x">>),
    Failure(<<"main.cpp:1: error", "emcc: error: x">>,
            <<"Command failed: cmd", "main.cpp:1: error", "emcc: error: x">>),
    Failure(<<>>, <<"Command failed: cmd">>) }

InitReply == Warmed(NumReplyReqs)

NextReply ==
  \/ \E r \in Reqs, language \in {"", "cpp", "rust", "go", "zig"}, code \in {0, 1} :
       Alone(r) /\ Arrive(r, language, code)
  \/ \E r \in Reqs, out \in FsOuts : ScratchDone(r, out)
  \/ \E r \in Reqs, ok \in BOOLEAN : ClearDone(r, ok)
  \/ \E r \in Reqs, out \in ExecOuts : CpInDone(r, out)
  \/ \E r \in Reqs, out \in {Ok} \cup CompileFailures : CompileDone(r, out)
  \/ \E r \in Reqs, out \in ExecOuts : TransferOutDone(r, out, 1)
  \/ \E r \in Reqs, out \in FsOuts : RmTmpDone(r, out)
  \/ \E r \in Reqs, ok \in BOOLEAN : CatchRmDone(r, ok)

SpecReply == InitReply /\ [][NextReply]_vars

(***************************************************************************)
(* The health scenario: a warmed server, every free list full, compiles    *)
(* NumHealthReqs different cpp sources, every operation succeeding, while  *)
(* the health check runs.                                                  *)
(***************************************************************************)
InitHealth == Warmed(NumHealthReqs)

NextHealth ==
  \/ \E r \in Reqs : Arrive(r, "cpp", r)
  \/ \E r \in Reqs : ScratchDone(r, Ok)
  \/ \E r \in Reqs : ClearDone(r, TRUE)
  \/ \E r \in Reqs : CpInDone(r, Ok)
  \/ \E r \in Reqs : CompileDone(r, Ok)
  \/ \E r \in Reqs : TransferOutDone(r, Ok, 1)
  \/ \E r \in Reqs : RmTmpDone(r, Ok)
  \/ HealthStart
  \/ \E ok \in BOOLEAN : HealthRestartDone(ok)

SpecHealth == InitHealth /\ [][NextHealth]_vars

(***************************************************************************)
(* Claims.                                                                 *)
(***************************************************************************)
\* where a request stands while fn runs (part_001:131, 141)
ExecutingPcs == {"scratch", "dockerRun", "clear", "cpIn", "compile", "transferOut",
                 "rmTmp", "releaseRm", "catchReleaseRm", "catchRm"}

Executing == { r \in Reqs : req[r].pc \in ExecutingPcs }

\* C1: in every reachable state the number of jobs executing, which is what
\* activeCompilations counts, is at least 0 and at most the concurrency
\* limit MAX_CONCURRENT_COMPILATIONS.
C1_ConcurrencyBound ==
  /\ activeCompilations >= 0
  /\ activeCompilations <= MAX_CONCURRENT_COMPILATIONS
  /\ activeCompilations = Cardinality(Executing)

\* the limit is reached again with a request waiting after a job has ended
C1_Witness ==
  /\ activeCompilations = MAX_CONCURRENT_COMPILATIONS
  /\ Cardinality(Executing) = MAX_CONCURRENT_COMPILATIONS
  /\ requestQueue # <<>>
  /\ \E r \in Reqs : req[r].pc = "done" /\ r \in Range(startOrder)

\* the requests that waited and have started, in the order they started
StartedWaiters == SelectSeq(startOrder, LAMBDA r : r \in Range(waitOrder))

\* C2: jobs that had to wait start in the order in which they were appended
\* to the wait list: at every moment the waiters started so far, in start
\* order, are an initial part of the waiters in arrival order.
C2_FifoRelease ==
  /\ Len(StartedWaiters) <= Len(waitOrder)
  /\ StartedWaiters = SubSeq(waitOrder, 1, Len(StartedWaiters))

\* two requests waited at the same time and both have started
C2_Witness ==
  /\ Len(StartedWaiters) >= 2
  /\ \E i \in DOMAIN waitOrder :
       /\ i + 1 \in DOMAIN waitOrder
       /\ response[waitOrder[i + 1]].status # 0

\* request r has been handed to executeWithQueue and its job has not ended
Submitted(r) == req[r].pc = "queued" \/ req[r].pc \in ExecutingPcs

\* C3: provided every awaited operation of a running job settles, every job
\* handed to executeWithQueue, admitted at once or put on the wait list,
\* eventually starts and eventually ends, and once arrivals have stopped
\* the wait list becomes empty and stays empty.
C3_NoJobDropped ==
  /\ \A r \in LiveReqs : (req[r].pc = "queued") ~> (r \in Range(startOrder))
  /\ \A r \in LiveReqs : Submitted(r) ~> (req[r].pc = "done")
  /\ <>[](requestQueue = <<>>)

\* a request that waited has been answered and nobody waits any more
C3_Witness ==
  /\ \E r \in Range(waitOrder) : r \in Range(startOrder) /\ req[r].pc = "done"
  /\ requestQueue = <<>>

\* the requests whose result has been inserted into the cache (part_001:229)
Inserted ==
  { r \in Reqs : \/ req[r].pc \in {"rmTmp", "releaseRm"}
                 \/ req[r].pc = "done" /\ response[r] = FreshResponse(req[r].wasm, req[r].wasmExec) }

\* C4: in every reachable state, and so right after every insert, the result
\* cache holds at most MAX_CACHE_SIZE entries.
C4_CacheWithinCapacity == Len(compilationCache) <= MAX_CACHE_SIZE

\* C5: once capacity + 1 entries with distinct keys have been inserted into
\* an empty cache within the TTL, the cache holds exactly capacity entries
\* and the one missing is the first inserted.
C5_EvictsOldest ==
  Cardinality(Inserted) = MAX_CACHE_SIZE + 1 =>
    /\ Len(compilationCache) = MAX_CACHE_SIZE
    /\ ~CacheHas(compilationCache, getCacheKey("rust", 1))
    /\ \A r \in Inserted \ {1} :
         CacheHas(compilationCache, getCacheKey(req[r].language, req[r].code))

\* the entry of key k is in the cache and older than the TTL
Stale(k) ==
  /\ CacheHas(compilationCache, k)
  /\ now - CacheGet(compilationCache, k).timestamp > CACHE_TTL

CleansAndInserts(r) == req[r].pc = "transferOut" /\ req'[r].pc = "rmTmp"

RepeatsFresh(r) ==
  /\ r - 1 \in Reqs
  /\ req[r].pc # "new"
  /\ req[r].language = req[r - 1].language
  /\ req[r].code = req[r - 1].code
  /\ response[r - 1] = FreshResponse(req[r - 1].wasm, req[r - 1].wasmExec)

\* request r is answered from the cache in this step
AnsweredFromCache(r) == response[r].status = 0 /\ response'[r].cached = "true"

HoldingPcs == {"clear", "cpIn", "compile", "transferOut", "rmTmp",
               "releaseRm", "catchReleaseRm"}

\* the jobs in flight that hold handle name
Holders(name) ==
  { r \in Reqs : req[r].pc \in HoldingPcs /\ req[r].containerName = name }

\* the places of the free lists, of any language, where name stands
FreeSlots(name) ==
  { p \in UNION { {l} \X DOMAIN containerPool[l] : l \in Langs } :
      containerPool[p[1]][p[2]] = name }

KnownNames ==
  WarmNames \cup containers \cup { req[r].containerName : r \in Reqs }
            \cup UNION { Range(containerPool[l]) : l \in Langs }

\* C8: in every reachable state no sandbox handle has two owners: counting
\* the places it takes in the free lists and the jobs in flight that hold
\* it, every handle is counted at most once.
C8_SingleOwner ==
  \A name \in KnownNames \ {NoContainer} :
    Cardinality(FreeSlots(name)) + Cardinality(Holders(name)) <= 1

\* two jobs hold the two warm rust sandboxes while a health cycle is waiting
\* for a restart, the free list being empty
C8_Witness ==
  /\ \E r, q \in Reqs :
       /\ r # q
       /\ Holders(PoolName("rust", 0)) = {r}
       /\ Holders(PoolName("rust", 1)) = {q}
  /\ containerPool["rust"] = <<>>
  /\ healthLang # 0

\* request r's job calls releaseContainer in this step
Releases(r) ==
  /\ req[r].pc \in {"clear", "cpIn", "compile", "transferOut", "rmTmp"}
  /\ req'[r].pc \notin {"clear", "cpIn", "compile", "transferOut", "rmTmp"}

\* C9: a release appends a warm handle to its language's free list exactly
\* when that list holds fewer handles than the language's poolSize, and
\* otherwise issues  docker rm -f  for it and leaves the free lists alone;
\* an ephemeral handle is always destroyed that way, and a free list only
\* ever holds warm handles of its own language.
C9_ReleaseRule ==
  /\ [](\A l \in Langs : \A i \in DOMAIN containerPool[l] :
          containerPool[l][i].kind = "pool" /\ containerPool[l][i].lang = l)
  /\ [][\A r \in Reqs : Releases(r) =>
          LET l    == req[r].language
              name == req[r].containerName
          IN  IF name.kind = "pool" /\ Len(containerPool[l]) < LANGUAGES[l].poolSize
                THEN /\ containerPool' =
                          [containerPool EXCEPT ![l] = Append(containerPool[l], name)]
                     /\ req'[r].pc \in {"done", "catchRm"}
                ELSE /\ containerPool' = containerPool
                     /\ req'[r].pc \in {"releaseRm", "catchReleaseRm"}]_vars

\* one job has given its warm sandbox back to the free list and been
\* answered, and another waits for  docker rm -f  of its temp sandbox
C9_Witness ==
  \E r, q \in Reqs :
    /\ req[r].pc = "done"
    /\ req[r].containerName.kind = "pool"
    /\ FreeSlots(req[r].containerName) # {}
    /\ req[q].pc = "releaseRm"
    /\ req[q].containerName.kind = "temp"

\* C10: getContainer never waits, and when the free list is empty the temp
\* sandbox it asks docker to create has a name that no sandbox in existence
\* and no other creation under way has, so that the creation can succeed.
C10_TempNameIsFresh ==
  \A r \in Reqs : req[r].pc = "dockerRun" =>
    /\ req[r].tempName \notin containers
    /\ \A q \in Reqs \ {r} : req[q].pc = "dockerRun" => req[q].tempName # req[r].tempName

\* request r's job has been given a handle by getContainer (part_001:205)
Acquired(r) == req[r].containerName # NoContainer

\* C11: a job that acquired a sandbox handle calls releaseContainer for it
\* exactly once, whether it ends in success or fails at any step after the
\* acquire, and a job that acquired none calls it never: no job releases
\* before it acquired or more than once, a job still working on its handle
\* has not released it, and a job that is past its release, or has ended,
\* has released once if it acquired and not at all otherwise.
C11_ReleasedOnce ==
  \A r \in Reqs :
    /\ req[r].releases <= 1
    /\ ~Acquired(r) => req[r].releases = 0
    /\ req[r].pc \in {"clear", "cpIn", "compile", "transferOut", "rmTmp"} =>
         Acquired(r) /\ req[r].releases = 0
    /\ req[r].pc \in {"releaseRm", "catchReleaseRm"} =>
         Acquired(r) /\ req[r].releases = 1
    /\ (req[r].pc \in {"catchRm", "done"} /\ Acquired(r)) => req[r].releases = 1

\* one job failed after its acquire and released once, another failed
\* before any acquire and released nothing
C11_Witness ==
  \E r, q \in Reqs :
    /\ req[r].pc = "done" /\ response[r].status = 500
    /\ Acquired(r) /\ req[r].releases = 1
    /\ req[q].pc = "done" /\ response[q].status = 500
    /\ ~Acquired(q) /\ req[q].releases = 0

\* request r's handler calls initPool() in this step and awaits it (173)
CallsInitPool(r) == req[r].pc = "new" /\ req'[r].pc = "awaitInit"

\* C12: initPool is idempotent and collapses concurrent callers: at any
\* instant at most one warm-up body is in flight, and one is exactly while
\* poolInitializing is set; a handler that awaits initPool() is resumed only
\* by the return of the body in flight; a call made while a body is in
\* flight starts none and waits on that body; once a warm-up has succeeded
\* no body is started and no name is added any more; and over all warm-ups,
\* failed ones included, no warm sandbox name is added to a free list twice.
C12_WarmUpOnce ==
  /\ [](/\ warmBodies \in {0, 1}
        /\ warmBodies = 1 <=> poolInitializing
        /\ warmBodies = 1 <=> initPc # "idle"
        /\ \A r \in Reqs : req[r].pc = "awaitInit" =>
             \/ r \in Range(initWaiters) /\ warmBodies = 1
             \/ r \in Range(microtasks)
        /\ \A i, j \in DOMAIN warmAdded : warmAdded[i] = warmAdded[j] => i = j)
  /\ [][\A r \in Reqs : (CallsInitPool(r) /\ warmBodies = 1) =>
          /\ warmBodies' = 1
          /\ initPc' = initPc
          /\ warmPending' = warmPending
          /\ r \in Range(initWaiters')]_vars
  /\ [][poolReady => poolReady' /\ warmBodies' = 0 /\ warmAdded' = warmAdded]_vars

\* a request that awaited a warm-up which failed is running in a temp
\* sandbox, and a later request waits on a further warm-up, which has
\* added a name
C12_Witness ==
  \E r, q \in Reqs :
    /\ req[r].tempName # NoContainer
    /\ req[q].pc = "awaitInit"
    /\ warmBodies = 1
    /\ initPc = "warming"
    /\ warmAdded # <<>>
    /\ ~poolReady

\* text t has a character other than white space
NonEmptyText(t) == \E i \in DOMAIN t : t[i] # ""

\* C13: every request gets at most one response, has got exactly one when
\* its handler has ended, and that response is either a success payload or
\* an error (status 400 or 500) whose text is not empty, also when the
\* classification of the failure output leaves no text.
C13_OneResponseNonEmptyError ==
  \A r \in Reqs :
    /\ req[r].responses <= 1
    /\ req[r].pc = "done" <=> req[r].responses = 1
    /\ req[r].responses = 0 => response[r] = NoResponse
    /\ req[r].responses = 1 =>
         \/ /\ response[r].status = 200
            /\ response[r].success
            /\ response[r].wasm # 0
            /\ response[r].error = <<>>
         \/ /\ response[r].status \in {400, 500}
            /\ ~response[r].success
            /\ NonEmptyText(response[r].error)

\* a job failed with output on stderr of which the classification kept
\* nothing, and its request was answered with the fallback text; another
\* request was refused by the validation
C13_Witness ==
  \E r, q \in Reqs :
    /\ req[r].pc = "done"
    /\ req[r].failure.stderr # <<>>
    /\ Classify(req[r].language, req[r].failure) = <<>>
    /\ response[r] = ErrorResponse(500, <<"Compilation failed">>)
    /\ response[q].status = 400

\* C14: every success response carries a boolean cached field, false when
\* the artifact was built by a job run for this request and true when it
\* was served from the result cache.
C14_CachedIsBoolean ==
  \A r \in Reqs : response[r].success =>
    /\ response[r].cached \in {"true", "false"}
    /\ response[r].cached = "false" <=> r \in Range(startOrder)

\* request r's job ends in this step (the finally block of 132-136, 143-147)
Completes(r) == req[r].pc \in ExecutingPcs /\ req'[r].pc = "done"

\* the waiters whose continuation is called in this step
StartedNow == { q \in Reqs : req[q].pc = "queued" /\ req'[q].pc # "queued" }

\* C15: each time a job completes, by success or by failure, the waiter at
\* the head of the wait list, if there is one, is removed from the list and
\* started, and no other; with an empty wait list nothing is started; and a
\* waiter is started by nothing but a completion.
C15_OneWaiterPerCompletion ==
  /\ [][\A r \in Reqs : Completes(r) =>
          IF requestQueue # <<>>
            THEN /\ StartedNow = {Head(requestQueue)}
                 /\ requestQueue' = Tail(requestQueue)
                 /\ startOrder' = Append(startOrder, Head(requestQueue))
                 /\ req'[Head(requestQueue)].pc \in ExecutingPcs
            ELSE /\ StartedNow = {}
                 /\ requestQueue' = <<>>
                 /\ startOrder' = startOrder]_vars
  /\ [][StartedNow # {} => \E r \in Reqs : Completes(r)]_vars

\* every job has completed, some by success and some by failure, waiters
\* were started on the way, and the last completions found nobody waiting
C15_Witness ==
  /\ \A r \in Reqs : req[r].pc = "done"
  /\ activeCompilations = 0
  /\ requestQueue = <<>>
  /\ StartedWaiters # <<>>
  /\ \E r \in Range(startOrder) : response[r].status = 500
  /\ \E r \in Range(startOrder) : response[r].status = 200

\* request r is admitted at once in this step (part_001:129-131)
AdmittedDirectly(r) ==
  /\ req[r].pc \in {"new", "awaitInit"}
  /\ req'[r].pc \in ExecutingPcs

\* C19: whenever the wait list is not empty the number of executing jobs is
\* the concurrency limit, and a request is admitted at once only when
\* nobody is waiting: new arrivals never overtake waiters.
C19_NoOvertaking ==
  /\ [](requestQueue # <<>> =>
          /\ activeCompilations = MAX_CONCURRENT_COMPILATIONS
          /\ Cardinality(Executing) = MAX_CONCURRENT_COMPILATIONS)
  /\ [][\A r \in Reqs : AdmittedDirectly(r) => requestQueue = <<>>]_vars

\* a completion has started a waiter and a later arrival waits behind a
\* full set of executing jobs
C19_Witness ==
  /\ StartedWaiters # <<>>
  /\ requestQueue # <<>>
  /\ \E r \in Reqs : req[r].pc = "done"
  /\ activeCompilations = MAX_CONCURRENT_COMPILATIONS

\* no job has been given handle name
NeverAcquired(name) == \A r \in Reqs : req[r].containerName # name

\* C16: a health cycle restarts every sandbox that is in a free list for
\* the whole of the cycle.  Where every warm sandbox is pooled from the
\* start, a sandbox that no job ever acquired has been in its free list all
\* along: when a cycle ends, each such sandbox has been restarted by it.
C16_CycleRestartsAllPooled ==
  [][(healthLang # 0 /\ healthLang' = 0) =>
       \A name \in WarmNames :
         (NeverAcquired(name)' /\ FreeSlots(name) # {}) => name \in cycleRestarted]_vars

\* request r's job is given a handle from a free list in this step (154)
TakesWarm(r) ==
  /\ req[r].pc = "scratch"
  /\ req'[r].containerName # NoContainer

\* C17: the health check and getContainer take no notice of each other:
\* getContainer hands out the head of the free list also while that
\* sandbox is being restarted, and the restart under way goes on; so a
\* sandbox can be restarting while a job in flight holds it.
C17_RestartIgnoresUse ==
  [][\A r \in Reqs : TakesWarm(r) =>
       /\ req'[r].containerName = Head(containerPool[req[r].language])
       /\ restarting' = restarting
       /\ healthLang' = healthLang
       /\ healthIdx' = healthIdx]_vars

\* a job holds the sandbox that the health check is restarting, having
\* acquired it after the restart began
C17_Witness ==
  /\ restarting # NoContainer
  /\ healthLang # 0
  /\ \E r \in Reqs :
       /\ Holders(restarting) = {r}
       /\ req[r].pc \in {"clear", "cpIn", "compile"}
  /\ FreeSlots(restarting) = {}

\* C18: the next user of a handle starts clean and stays so: while a job
\* runs its compile command in a sandbox, the working directory of that
\* sandbox holds the source the job transferred in; no clear issued by an
\* earlier job has removed it.
C18_SourceSurvivesOldClear ==
  \A r \in Reqs :
    (req[r].pc = "compile" /\ req[r].containerName \in DOMAIN srcIn) =>
      srcIn[req[r].containerName] = r

\* request r asked for the source cached under key
AsksFor(r, key) == req[r].pc # "new" /\ getCacheKey(req[r].language, req[r].code) = key

\* C20: a job that ends in failure leaves the cache as it was: for every
\* key in the cache, a job run for that key has returned a success
\* response, or has inserted the entry and is still on its way to its end.
C20_FailureLeavesCache ==
  \A i \in DOMAIN compilationCache :
    \E r \in Range(startOrder) :
      /\ AsksFor(r, compilationCache[i].key)
      /\ \/ response[r].success
         \/ req[r].pc \in {"rmTmp", "releaseRm"}

=============================================================================
